---- MODULE Spec2Model ----
(***************************************************************************)
(* Model of ezdxf's accelerated geometry kernel (src/ezdxf/acc): the 3D    *)
(* vector types CppVec3 and CVec3 and the quadratic and cubic Bezier curve *)
(* evaluators CppQuadBezier and CppCubicBezier.                            *)
(*                                                                         *)
(* A C++ double is modelled by the rational number it denotes, kept in     *)
(* lowest terms as [n |-> numerator, d |-> denominator], plus one          *)
(* non-finite value (the infinities and NaN, which never compare equal to  *)
(* a number and absorb every further operation the code applies to them).  *)
(* The arithmetic operators compute exactly.  The inputs the actions draw  *)
(* are integers and dyadic fractions of a few bits (and decimal            *)
(* tolerances that are only compared, far from any of the compared         *)
(* values): on these every IEEE-754 operation of the code is exact, so the *)
(* model computes what the code computes.  Rounding of results that are    *)
(* not representable is outside the model.                                 *)
(***************************************************************************)
EXTENDS Integers, Sequences, FiniteSets

(***************************************************************************)
(* Bounds of the model.                                                    *)
(***************************************************************************)
\* number of concurrent callers of the curve evaluators
NCallers == 2
\* curve parameters t are the multiples of 1/2^TBits ...
TBits == 2
\* ... from -TOver/2^TBits to 1 + TOver/2^TBits (values outside [0,1] included)
TOver == 1
\* coordinates of the vectors handed to normalize: -MaxCoord..MaxCoord
MaxCoord == 4
\* coordinates of the vectors handed to lerp: -LerpCoord..LerpCoord
LerpCoord == 1

(***************************************************************************)
(* double: values and arithmetic.                                          *)
(***************************************************************************)
RECURSIVE GCD(_, _)
GCD(a, b) ==
    IF b = 0 THEN a ELSE GCD(b, a % b)

IAbs(i) ==
    IF i < 0 THEN -i ELSE i

\* the rational n/d (d > 0) in lowest terms
Norm(n, d) ==
    LET g == GCD(IAbs(n), d)
    IN  [n |-> n \div g, d |-> d \div g]

\* the double denoting the integer i
R(i) ==
    [n |-> i, d |-> 1]

\* the double denoting n/d, d > 0
Q(n, d) ==
    Norm(n, d)

\* an infinity or a NaN
NonFinite ==
    [n |-> 0, d |-> 0]

Finite(a) ==
    a.d # 0

Add(a, b) ==
    IF ~Finite(a) \/ ~Finite(b) THEN NonFinite
    ELSE Norm(a.n * b.d + b.n * a.d, a.d * b.d)

Sub(a, b) ==
    IF ~Finite(a) \/ ~Finite(b) THEN NonFinite
    ELSE Norm(a.n * b.d - b.n * a.d, a.d * b.d)

\* cancels crosswise before multiplying
Mul(a, b) ==
    IF ~Finite(a) \/ ~Finite(b) THEN NonFinite
    ELSE LET g1 == GCD(IAbs(a.n), b.d)
             g2 == GCD(IAbs(b.n), a.d)
         IN  [n |-> (a.n \div g1) * (b.n \div g2),
              d |-> (a.d \div g2) * (b.d \div g1)]

\* x / 0 is an infinity (0 / 0 a NaN)
Div(a, b) ==
    IF ~Finite(a) \/ ~Finite(b) \/ b.n = 0 THEN NonFinite
    ELSE IF b.n > 0 THEN Mul(a, [n |-> b.d, d |-> b.n])
    ELSE Mul(a, [n |-> -b.d, d |-> -b.n])

Floor(a) ==
    a.n \div a.d

\* a <= b; a comparison with a NaN is false
Leq(a, b) ==
    /\ Finite(a)
    /\ Finite(b)
    /\ LET fa == Floor(a)
           fb == Floor(b)
       IN  IF fa # fb THEN fa < fb
           ELSE (a.n - fa * a.d) * b.d <= (b.n - fb * b.d) * a.d

fabs(a) ==
    [n |-> IAbs(a.n), d |-> a.d]

\* the largest k with k * k <= i
ISqrt(i) ==
    CHOOSE k \in 0..i : k * k <= i /\ (k + 1) * (k + 1) > i

\* TRUE when the square root of a is a rational (sqrt is then exact)
IsSquare(a) ==
    /\ Finite(a)
    /\ a.n >= 0
    /\ ISqrt(a.n) * ISqrt(a.n) = a.n
    /\ ISqrt(a.d) * ISqrt(a.d) = a.d

\* sqrt of a double whose root is rational
sqrt(a) ==
    IF ~Finite(a) THEN NonFinite
    ELSE [n |-> ISqrt(a.n), d |-> ISqrt(a.d)]

RECURSIVE Pow2(_)
Pow2(k) ==
    IF k = 0 THEN 1 ELSE 2 * Pow2(k - 1)

RECURSIVE IsPow2(_)
IsPow2(i) ==
    IF i = 1 THEN TRUE
    ELSE IF i % 2 = 1 THEN FALSE
    ELSE IsPow2(i \div 2)

\* a finite binary fraction: representable as a double without rounding
IsDyadic(a) ==
    Finite(a) /\ IsPow2(a.d)

(***************************************************************************)
(* CppVec3 (_cpp_vec3.hpp) and CVec3 (cvec.hpp): value types of three      *)
(* doubles.  Every operation returns a new vector.                         *)
(***************************************************************************)
Vec(x, y, z) ==
    [x |-> x, y |-> y, z |-> z]

\* the vector of the integers i, j, k
IVec(i, j, k) ==
    Vec(R(i), R(j), R(k))

VecFinite(v) ==
    Finite(v.x) /\ Finite(v.y) /\ Finite(v.z)

\* CppVec3::operator+
CppVec3_plus(v, other) ==
    Vec(Add(v.x, other.x), Add(v.y, other.y), Add(v.z, other.z))

\* CppVec3::operator-
CppVec3_minus(v, other) ==
    Vec(Sub(v.x, other.x), Sub(v.y, other.y), Sub(v.z, other.z))

\* CppVec3::operator*
CppVec3_times(v, factor) ==
    Vec(Mul(v.x, factor), Mul(v.y, factor), Mul(v.z, factor))

magnitude_sqr(v) ==
    Add(Add(Mul(v.x, v.x), Mul(v.y, v.y)), Mul(v.z, v.z))

magnitude(v) ==
    sqrt(Add(Add(Mul(v.x, v.x), Mul(v.y, v.y)), Mul(v.z, v.z)))

\* normalize without its test of the magnitude
normalize_unguarded(v, length) ==
    [ret |-> CppVec3_times(v, Div(length, magnitude(v))), divs |-> 1]

\* normalize scaling by the length alone
normalize_by_length(v, length) ==
    LET mag == magnitude(v)
    IN  IF mag = R(0) THEN [ret |-> v, divs |-> 0]
        ELSE [ret |-> CppVec3_times(v, length), divs |-> 0]

\* CppVec3::normalize: ret is the vector returned, divs the number of
\* divisions the call performed
normalize(v, length) ==
    LET mag == magnitude(v)
    IN  IF mag = R(0) THEN [ret |-> v, divs |-> 0]
        ELSE [ret |-> CppVec3_times(v, Div(length, mag)), divs |-> 1]

\* lerp adding the scaled end point instead of the scaled difference
lerp_no_difference(v, other, factor) ==
    CppVec3_plus(v, CppVec3_times(other, factor))

\* CppVec3::lerp
lerp(v, other, factor) ==
    CppVec3_plus(v, CppVec3_times(CppVec3_minus(other, v), factor))

\* isclose forgetting the z axis
isclose_xy(v, other, abs_tol) ==
    LET diff == CppVec3_minus(v, other)
    IN  IF /\ Leq(fabs(diff.x), abs_tol)
           /\ Leq(fabs(diff.y), abs_tol)
        THEN 1 ELSE 0

\* CppVec3::isclose: an int, 1 for close and 0 for not close
isclose(v, other, abs_tol) ==
    LET diff == CppVec3_minus(v, other)
    IN  IF /\ Leq(fabs(diff.x), abs_tol)
           /\ Leq(fabs(diff.y), abs_tol)
           /\ Leq(fabs(diff.z), abs_tol)
        THEN 1 ELSE 0

\* CVec3::operator*
CVec3_times(v, f) ==
    Vec(Mul(v.x, f), Mul(v.y, f), Mul(v.z, f))

CVec3_magnitude(v) ==
    sqrt(Add(Add(Mul(v.x, v.x), Mul(v.y, v.y)), Mul(v.z, v.z)))

\* CVec3::normalize
CVec3_normalize(v, length) ==
    LET mag == CVec3_magnitude(v)
    IN  IF mag = R(0) THEN [ret |-> v, divs |-> 0]
        ELSE LET f == Div(length, mag)
             IN  [ret |-> CVec3_times(v, f), divs |-> 1]

(***************************************************************************)
(* CppCubicBezier (_cpp_cubic_bezier.cpp): the weights are written to an   *)
(* array of the calling method, then the control points are summed.        *)
(***************************************************************************)
\* the point weights with weights[1] missing its factor t
bernstein_poly_d0_lost_t(t) ==
    LET t2 == Mul(t, t)
        one_minus_t == Sub(R(1), t)
        one_minus_t_square == Mul(one_minus_t, one_minus_t)
    IN  << Mul(one_minus_t_square, one_minus_t),
           Mul(R(3), one_minus_t_square),
           Mul(Mul(R(3), one_minus_t), t2),
           Mul(t2, t) >>

\* CppCubicBezier::bernstein_poly_d0
bernstein_poly_d0(t) ==
    LET t2 == Mul(t, t)
        one_minus_t == Sub(R(1), t)
        one_minus_t_square == Mul(one_minus_t, one_minus_t)
    IN  << Mul(one_minus_t_square, one_minus_t),
           Mul(Mul(R(3), one_minus_t_square), t),
           Mul(Mul(R(3), one_minus_t), t2),
           Mul(t2, t) >>

\* the tangent weights with weights[1] = 3 (1 - 4t + t^2)
bernstein_poly_d1_lost_3(t) ==
    LET t2 == Mul(t, t)
    IN  << Mul(Mul(R(-3), Sub(R(1), t)), Sub(R(1), t)),
           Mul(R(3), Add(Sub(R(1), Mul(R(4), t)), t2)),
           Mul(Mul(R(3), t), Sub(R(2), Mul(R(3), t))),
           Mul(R(3), t2) >>

\* CppCubicBezier::bernstein_poly_d1
bernstein_poly_d1(t) ==
    LET t2 == Mul(t, t)
    IN  << Mul(Mul(R(-3), Sub(R(1), t)), Sub(R(1), t)),
           Mul(R(3), Add(Sub(R(1), Mul(R(4), t)), Mul(R(3), t2))),
           Mul(Mul(R(3), t), Sub(R(2), Mul(R(3), t))),
           Mul(R(3), t2) >>

\* p0 * weights[0] + p1 * weights[1] + p2 * weights[2] + p3 * weights[3]
CubicSum(curve, weights) ==
    CppVec3_plus(
        CppVec3_plus(
            CppVec3_plus(CppVec3_times(curve.p0, weights[1]),
                         CppVec3_times(curve.p1, weights[2])),
            CppVec3_times(curve.p2, weights[3])),
        CppVec3_times(curve.p3, weights[4]))

(***************************************************************************)
(* CppQuadBezier (_cpp_quad_bezier.cpp): the weights are the locals        *)
(* a, b, c of the calling method.                                          *)
(***************************************************************************)
\* the point weights with b missing its factor t
quad_point_weights_lost_t(t) ==
    LET one_minus_t == Sub(R(1), t)
        a == Mul(one_minus_t, one_minus_t)
        b == Mul(R(2), one_minus_t)
        c == Mul(t, t)
    IN  << a, b, c >>

\* the locals a, b, c of CppQuadBezier::point
quad_point_weights(t) ==
    LET one_minus_t == Sub(R(1), t)
        a == Mul(one_minus_t, one_minus_t)
        b == Mul(Mul(R(2), t), one_minus_t)
        c == Mul(t, t)
    IN  << a, b, c >>

\* the tangent weights with b = 2 - 2t
quad_tangent_weights_wrong_b(t) ==
    LET a == Mul(R(-2), Sub(R(1), t))
        b == Sub(R(2), Mul(R(2), t))
        c == Mul(R(2), t)
    IN  << a, b, c >>

\* the locals a, b, c of CppQuadBezier::tangent
quad_tangent_weights(t) ==
    LET a == Mul(R(-2), Sub(R(1), t))
        b == Sub(R(2), Mul(R(4), t))
        c == Mul(R(2), t)
    IN  << a, b, c >>

\* p0 * a + p1 * b + p2 * c
QuadSum(curve, abc) ==
    CppVec3_plus(
        CppVec3_plus(CppVec3_times(curve.p0, abc[1]),
                     CppVec3_times(curve.p1, abc[2])),
        CppVec3_times(curve.p2, abc[3]))

\* CppCubicBezier(v0, v1, v2, v3)
CppCubicBezier(v0, v1, v2, v3) ==
    [p0 |-> v0, p1 |-> v1, p2 |-> v2, p3 |-> v3]

\* CppQuadBezier(v0, v1, v2)
CppQuadBezier(v0, v1, v2) ==
    [p0 |-> v0, p1 |-> v1, p2 |-> v2]

(***************************************************************************)
(* Inputs.                                                                 *)
(***************************************************************************)
Callers ==
    1..NCallers

\* the parameters t of the evaluation runs, inside and outside [0,1]
TValues ==
    { Q(k, Pow2(TBits)) : k \in (-TOver)..(Pow2(TBits) + TOver) }

\* the parameters t of the concurrent runs
ConcTValues ==
    { R(0), Q(1, 2), R(1) }

StraightCubic ==
    CppCubicBezier(IVec(0, 0, 0), IVec(1, 0, 0), IVec(2, 0, 0), IVec(3, 0, 0))

ArchCubic ==
    CppCubicBezier(IVec(0, 0, 0), IVec(0, 1, 0), IVec(1, 1, 0), IVec(1, 0, 0))

SpaceCubic ==
    CppCubicBezier(IVec(1, -2, 3), Vec(Q(-1, 2), R(4), R(0)),
                   IVec(2, 2, -5), Vec(R(-3), Q(1, 4), R(7)))

CubicCurves ==
    { StraightCubic, ArchCubic, SpaceCubic }

LineQuad ==
    CppQuadBezier(IVec(0, 0, 0), IVec(1, 1, 0), IVec(2, 2, 0))

SpaceQuad ==
    CppQuadBezier(IVec(1, -2, 3), Vec(Q(-1, 2), R(4), R(0)), IVec(2, 2, -5))

QuadCurves ==
    { LineQuad, SpaceQuad,
      CppQuadBezier(IVec(-4, 0, 1), IVec(0, 6, 0), Vec(R(5), Q(3, 4), R(-2))) }

\* translations of the control points
Shifts ==
    { IVec(1, 0, 0), Vec(R(-2), Q(1, 2), R(3)) }

Translate3(curve, d) ==
    CppQuadBezier(CppVec3_plus(curve.p0, d), CppVec3_plus(curve.p1, d),
                  CppVec3_plus(curve.p2, d))

Translate4(curve, d) ==
    CppCubicBezier(CppVec3_plus(curve.p0, d), CppVec3_plus(curve.p1, d),
                   CppVec3_plus(curve.p2, d), CppVec3_plus(curve.p3, d))

Grid(m) ==
    { IVec(i, j, k) : i \in (-m)..m, j \in (-m)..m, k \in (-m)..m }

\* target lengths: zero, negative, positive, fractional
Lengths ==
    { R(-10), R(-5), Q(-1, 2), R(0), Q(1, 2), R(1), R(5), R(10) }

\* sqrt and the division of normalize(v, length) are exact
NormalizeExact(v, length) ==
    /\ IsSquare(magnitude_sqr(v))
    /\ \/ magnitude(v) = R(0)
       \/ IsDyadic(Div(length, magnitude(v)))

\* lerp factors, inside and outside [0,1]
Factors ==
    { R(-1), R(0), Q(1, 4), Q(1, 2), R(1), Q(3, 2), R(2) }

\* coordinates of the vectors handed to isclose: small ones and two large
\* neighbours, one apart
CloseCoords ==
    { R(0), R(1), R(2000000000), R(2000000001) }

\* the abs_tol handed to isclose: 0, 1e-9, 1, 3
Tolerances ==
    { R(0), Q(1, 1000000000), R(1), R(3) }

Call(method, v, other, s) ==
    [method |-> method, v |-> v, other |-> other, s |-> s]

(***************************************************************************)
(* State.                                                                  *)
(***************************************************************************)
VARIABLES
    cubic,   \* the CppCubicBezier object: p0, p1, p2, p3
    quad,    \* the CppQuadBezier object: p0, p1, p2
    built,   \* the two curves as their constructors left them
    pc,      \* per caller: "idle", "sum" (weights computed), "done"
    op,      \* per caller: the method it called last
    arg,     \* per caller: the t it passed
    frame,   \* per stack frame: the local weights of the running method
    ret,     \* per caller: the vector its last call returned
    overlapped, \* per caller: another call began while its call was running
    vin,     \* the vector call to run: method, receiver v, other, double s
    vop,     \* the vector method that ran, "none" before
    vret,    \* the vector it returned
    iret,    \* the int it returned (isclose)
    divs     \* the divisions it performed

curveVars ==
    << cubic, quad, built, pc, op, arg, frame, ret, overlapped >>

vecVars ==
    << vin, vop, vret, iret, divs >>

vars ==
    << cubic, quad, built, pc, op, arg, frame, ret, overlapped,
       vin, vop, vret, iret, divs >>

Zero3 ==
    IVec(0, 0, 0)

NoWeights ==
    << R(0), R(0), R(0), R(0) >>

\* one frame for all callers, as a static array would be
shared_frame(c) ==
    1

\* double weights[4] / double a, b, c: automatic storage, one per call
FrameOf(c) ==
    c

CurvesIdle ==
    /\ pc = [c \in Callers |-> "idle"]
    /\ op = [c \in Callers |-> "none"]
    /\ arg = [c \in Callers |-> R(0)]
    /\ frame = [c \in Callers |-> NoWeights]
    /\ ret = [c \in Callers |-> Zero3]
    /\ overlapped = [c \in Callers |-> FALSE]

VecIdle ==
    /\ vop = "none"
    /\ vret = Zero3
    /\ iret = 0
    /\ divs = 0

\* the curves are constructed from their control points
Init ==
    /\ \E curves \in { << ArchCubic, LineQuad >>, << SpaceCubic, SpaceQuad >> } :
          /\ cubic = curves[1]
          /\ quad = curves[2]
    /\ built = [cubic |-> cubic, quad |-> quad]
    /\ CurvesIdle
    /\ vin = Call("none", Zero3, Zero3, R(0))
    /\ VecIdle

\* caller c begins a call: it overlaps every call that is running
BeginOverlap(c) ==
    [d \in Callers |->
        IF d = c THEN \E e \in Callers \ {c} : pc[e] = "sum"
        ELSE overlapped[d] \/ pc[d] = "sum"]

(***************************************************************************)
(* The curve methods.  A call computes its weights into its frame, then    *)
(* reads the control points and returns their weighted sum.                *)
(***************************************************************************)
\* CppCubicBezier::point, to the end of bernstein_poly_d0
CubicPointWeights(c, t) ==
    /\ pc[c] # "sum"
    /\ pc' = [pc EXCEPT ![c] = "sum"]
    /\ op' = [op EXCEPT ![c] = "cubic.point"]
    /\ arg' = [arg EXCEPT ![c] = t]
    /\ frame' = [frame EXCEPT ![FrameOf(c)] = bernstein_poly_d0(t)]
    /\ ret' = [ret EXCEPT ![c] = Zero3]
    /\ overlapped' = BeginOverlap(c)
    /\ UNCHANGED << cubic, quad, built >>
    /\ UNCHANGED vecVars

\* CppCubicBezier::point, its return statement
CubicPointReturn(c) ==
    /\ pc[c] = "sum"
    /\ op[c] = "cubic.point"
    /\ pc' = [pc EXCEPT ![c] = "done"]
    /\ ret' = [ret EXCEPT ![c] = CubicSum(cubic, frame[FrameOf(c)])]
    /\ UNCHANGED << cubic, quad, built, op, arg, frame, overlapped >>
    /\ UNCHANGED vecVars

\* CppCubicBezier::tangent, to the end of bernstein_poly_d1
CubicTangentWeights(c, t) ==
    /\ pc[c] # "sum"
    /\ pc' = [pc EXCEPT ![c] = "sum"]
    /\ op' = [op EXCEPT ![c] = "cubic.tangent"]
    /\ arg' = [arg EXCEPT ![c] = t]
    /\ frame' = [frame EXCEPT ![FrameOf(c)] = bernstein_poly_d1(t)]
    /\ ret' = [ret EXCEPT ![c] = Zero3]
    /\ overlapped' = BeginOverlap(c)
    /\ UNCHANGED << cubic, quad, built >>
    /\ UNCHANGED vecVars

\* CppCubicBezier::tangent, its return statement
CubicTangentReturn(c) ==
    /\ pc[c] = "sum"
    /\ op[c] = "cubic.tangent"
    /\ pc' = [pc EXCEPT ![c] = "done"]
    /\ ret' = [ret EXCEPT ![c] = CubicSum(cubic, frame[FrameOf(c)])]
    /\ UNCHANGED << cubic, quad, built, op, arg, frame, overlapped >>
    /\ UNCHANGED vecVars

\* CppQuadBezier::point, to the assignment of c
QuadPointWeights(c, t) ==
    /\ pc[c] # "sum"
    /\ pc' = [pc EXCEPT ![c] = "sum"]
    /\ op' = [op EXCEPT ![c] = "quad.point"]
    /\ arg' = [arg EXCEPT ![c] = t]
    /\ frame' = [frame EXCEPT ![FrameOf(c)] = quad_point_weights(t)]
    /\ ret' = [ret EXCEPT ![c] = Zero3]
    /\ overlapped' = BeginOverlap(c)
    /\ UNCHANGED << cubic, quad, built >>
    /\ UNCHANGED vecVars

\* CppQuadBezier::point, its return statement
QuadPointReturn(c) ==
    /\ pc[c] = "sum"
    /\ op[c] = "quad.point"
    /\ pc' = [pc EXCEPT ![c] = "done"]
    /\ ret' = [ret EXCEPT ![c] = QuadSum(quad, frame[FrameOf(c)])]
    /\ UNCHANGED << cubic, quad, built, op, arg, frame, overlapped >>
    /\ UNCHANGED vecVars

\* CppQuadBezier::tangent, to the assignment of c
QuadTangentWeights(c, t) ==
    /\ pc[c] # "sum"
    /\ pc' = [pc EXCEPT ![c] = "sum"]
    /\ op' = [op EXCEPT ![c] = "quad.tangent"]
    /\ arg' = [arg EXCEPT ![c] = t]
    /\ frame' = [frame EXCEPT ![FrameOf(c)] = quad_tangent_weights(t)]
    /\ ret' = [ret EXCEPT ![c] = Zero3]
    /\ overlapped' = BeginOverlap(c)
    /\ UNCHANGED << cubic, quad, built >>
    /\ UNCHANGED vecVars

\* CppQuadBezier::tangent, its return statement
QuadTangentReturn(c) ==
    /\ pc[c] = "sum"
    /\ op[c] = "quad.tangent"
    /\ pc' = [pc EXCEPT ![c] = "done"]
    /\ ret' = [ret EXCEPT ![c] = QuadSum(quad, frame[FrameOf(c)])]
    /\ UNCHANGED << cubic, quad, built, op, arg, frame, overlapped >>
    /\ UNCHANGED vecVars

\* several callers, their calls interleaved
Next ==
    \E c \in Callers :
        \/ \E t \in ConcTValues : CubicPointWeights(c, t)
        \/ CubicPointReturn(c)
        \/ \E t \in ConcTValues : CubicTangentWeights(c, t)
        \/ CubicTangentReturn(c)
        \/ \E t \in ConcTValues : QuadPointWeights(c, t)
        \/ QuadPointReturn(c)
        \/ \E t \in ConcTValues : QuadTangentWeights(c, t)
        \/ QuadTangentReturn(c)

Spec ==
    Init /\ [][Next]_vars

\* the curves are constructed from their control points
EvalInit ==
    /\ cubic \in CubicCurves
    /\ quad \in QuadCurves
    /\ built = [cubic |-> cubic, quad |-> quad]
    /\ CurvesIdle
    /\ vin = Call("none", Zero3, Zero3, R(0))
    /\ VecIdle

\* one caller, one call after the other, over all of TValues
EvalNext ==
    \/ \E t \in TValues : CubicPointWeights(1, t)
    \/ CubicPointReturn(1)
    \/ \E t \in TValues : CubicTangentWeights(1, t)
    \/ CubicTangentReturn(1)
    \/ \E t \in TValues : QuadPointWeights(1, t)
    \/ QuadPointReturn(1)
    \/ \E t \in TValues : QuadTangentWeights(1, t)
    \/ QuadTangentReturn(1)

EvalSpec ==
    EvalInit /\ [][EvalNext]_vars

(***************************************************************************)
(* The vector methods: pure functions of their arguments, each run as one  *)
(* step on the call drawn at the start.                                    *)
(***************************************************************************)
\* CppVec3::normalize
Normalize ==
    /\ vop = "none"
    /\ vin.method = "normalize"
    /\ NormalizeExact(vin.v, vin.s)
    /\ vop' = "CppVec3.normalize"
    /\ vret' = normalize(vin.v, vin.s).ret
    /\ divs' = normalize(vin.v, vin.s).divs
    /\ UNCHANGED << vin, iret >>
    /\ UNCHANGED curveVars

\* CVec3::normalize
CVec3Normalize ==
    /\ vop = "none"
    /\ vin.method = "normalize"
    /\ NormalizeExact(vin.v, vin.s)
    /\ vop' = "CVec3.normalize"
    /\ vret' = CVec3_normalize(vin.v, vin.s).ret
    /\ divs' = CVec3_normalize(vin.v, vin.s).divs
    /\ UNCHANGED << vin, iret >>
    /\ UNCHANGED curveVars

\* CppVec3::lerp
Lerp ==
    /\ vop = "none"
    /\ vin.method = "lerp"
    /\ vop' = "lerp"
    /\ vret' = lerp(vin.v, vin.other, vin.s)
    /\ UNCHANGED << vin, iret, divs >>
    /\ UNCHANGED curveVars

\* CppVec3::isclose
IsClose ==
    /\ vop = "none"
    /\ vin.method = "isclose"
    /\ vop' = "isclose"
    /\ iret' = isclose(vin.v, vin.other, vin.s)
    /\ UNCHANGED << vin, vret, divs >>
    /\ UNCHANGED curveVars

\* a call of a vector method is drawn: its receiver and its arguments
VecInit ==
    /\ cubic = StraightCubic
    /\ quad = LineQuad
    /\ built = [cubic |-> cubic, quad |-> quad]
    /\ CurvesIdle
    /\ \/ \E v \in Grid(MaxCoord), s \in Lengths :
              vin = Call("normalize", v, Zero3, s)
       \/ \E v \in Grid(LerpCoord), other \in Grid(LerpCoord), s \in Factors :
              vin = Call("lerp", v, other, s)
       \/ \E x1 \in CloseCoords, y1 \in CloseCoords, z1 \in CloseCoords,
             x2 \in CloseCoords, y2 \in CloseCoords, z2 \in CloseCoords,
             s \in Tolerances :
              vin = Call("isclose", Vec(x1, y1, z1), Vec(x2, y2, z2), s)
    /\ VecIdle

VecNext ==
    \/ Normalize
    \/ CVec3Normalize
    \/ Lerp
    \/ IsClose

VecSpec ==
    VecInit /\ [][VecNext]_vars

(***************************************************************************)
(* Properties.                                                             *)
(***************************************************************************)
\* const double REL_TOL = 1e-9
REL_TOL ==
    Q(1, 1000000000)

\* c0 + c1 t + c2 t^2 + c3 t^3, the coefficients integers
Poly(c0, c1, c2, c3, t) ==
    Add(Add(Add(R(c0), Mul(R(c1), t)), Mul(R(c2), Mul(t, t))),
        Mul(R(c3), Mul(t, Mul(t, t))))

RECURSIVE SumSeq(_)
SumSeq(w) ==
    IF w = << >> THEN R(0) ELSE Add(w[1], SumSeq(Tail(w)))

InUnit(t) ==
    Leq(R(0), t) /\ Leq(t, R(1))

\* one axis of the rule with both relative tests and the absolute test
AxisCloseRelAbs(a, b, abs_tol) ==
    LET d == fabs(Sub(a, b))
    IN  \/ Leq(d, Mul(REL_TOL, fabs(b)))
        \/ Leq(d, Mul(REL_TOL, fabs(a)))
        \/ Leq(d, abs_tol)

\* one axis of the rule with the absolute test alone
AxisCloseAbs(a, b, abs_tol) ==
    Leq(fabs(Sub(a, b)), abs_tol)

\* C1 as claimed: isclose returns true exactly when every axis passes
\* |d| <= REL_TOL * |b| or |d| <= REL_TOL * |a| or |d| <= abs_tol.
C1_IsCloseRelativeOrAbsolute ==
    vop = "isclose" =>
        (iret # 0 <=>
            /\ AxisCloseRelAbs(vin.v.x, vin.other.x, vin.s)
            /\ AxisCloseRelAbs(vin.v.y, vin.other.y, vin.s)
            /\ AxisCloseRelAbs(vin.v.z, vin.other.z, vin.s))

\* C1 amended: isclose returns true (1) exactly when every axis passes
\* |d| <= abs_tol, and false (0) otherwise; REL_TOL plays no part, so a
\* difference above abs_tol is reported not close even when it is within
\* REL_TOL of the magnitudes.
C1_IsCloseAbsoluteOnly ==
    vop = "isclose" =>
        /\ iret \in {0, 1}
        /\ iret = 1 <=>
              /\ AxisCloseAbs(vin.v.x, vin.other.x, vin.s)
              /\ AxisCloseAbs(vin.v.y, vin.other.y, vin.s)
              /\ AxisCloseAbs(vin.v.z, vin.other.z, vin.s)

\* C1 witness: isclose ran on vectors one apart on the x axis at 2e9, within
\* REL_TOL of their magnitudes and above abs_tol = 1e-9, and returned 0.
C1_Witness ==
    /\ vop = "isclose"
    /\ vin.v = Vec(R(2000000000), R(1), R(0))
    /\ vin.other = Vec(R(2000000001), R(1), R(0))
    /\ vin.s = Q(1, 1000000000)
    /\ AxisCloseRelAbs(vin.v.x, vin.other.x, vin.s)
    /\ ~AxisCloseAbs(vin.v.x, vin.other.x, vin.s)
    /\ iret = 0

\* C2: CppCubicBezier::point(0) returns p0 and point(1) returns p3, the
\* weights of bernstein_poly_d0 being (1,0,0,0) at t = 0 and (0,0,0,1) at t = 1.
C2_CubicEndpoints ==
    \A c \in Callers :
        op[c] = "cubic.point" =>
            /\ (pc[c] = "sum" /\ arg[c] = R(0)) =>
                  frame[FrameOf(c)] = << R(1), R(0), R(0), R(0) >>
            /\ (pc[c] = "sum" /\ arg[c] = R(1)) =>
                  frame[FrameOf(c)] = << R(0), R(0), R(0), R(1) >>
            /\ (pc[c] = "done" /\ arg[c] = R(0)) => ret[c] = cubic.p0
            /\ (pc[c] = "done" /\ arg[c] = R(1)) => ret[c] = cubic.p3

\* C2 witness: point(1) has returned p3 on the curve in space.
C2_Witness ==
    /\ pc[1] = "done"
    /\ op[1] = "cubic.point"
    /\ arg[1] = R(1)
    /\ cubic = SpaceCubic
    /\ ret[1] = Vec(R(-3), Q(1, 4), R(7))

\* C3: CppQuadBezier::point(0) returns p0 and point(1) returns p2, the
\* weights (a, b, c) being (1,0,0) at t = 0 and (0,0,1) at t = 1.
C3_QuadEndpoints ==
    \A c \in Callers :
        op[c] = "quad.point" =>
            /\ (pc[c] = "sum" /\ arg[c] = R(0)) =>
                  frame[FrameOf(c)] = << R(1), R(0), R(0) >>
            /\ (pc[c] = "sum" /\ arg[c] = R(1)) =>
                  frame[FrameOf(c)] = << R(0), R(0), R(1) >>
            /\ (pc[c] = "done" /\ arg[c] = R(0)) => ret[c] = quad.p0
            /\ (pc[c] = "done" /\ arg[c] = R(1)) => ret[c] = quad.p2

\* C3 witness: point(0) has returned p0 on the quadratic curve in space.
C3_Witness ==
    /\ pc[1] = "done"
    /\ op[1] = "quad.point"
    /\ arg[1] = R(0)
    /\ quad = SpaceQuad
    /\ ret[1] = IVec(1, -2, 3)

\* C4: normalize of a vector of magnitude zero returns the vector unchanged
\* (the zero vector, no NaN or infinity) for every length and performs no
\* division, in CppVec3 and in CVec3.
C4_NormalizeZeroGuard ==
    (/\ vop \in {"CppVec3.normalize", "CVec3.normalize"}
     /\ magnitude(vin.v) = R(0)) =>
        /\ vret = vin.v
        /\ vret = Zero3
        /\ VecFinite(vret)
        /\ divs = 0

\* C4 witness: Vector3(0,0,0).normalize(5.0) has returned.
C4_Witness ==
    /\ vop = "CppVec3.normalize"
    /\ vin.v = Zero3
    /\ vin.s = R(5)
    /\ vret = Zero3

\* C5 as claimed: for a vector of non-zero magnitude and every length, zero
\* and negative ones included, the magnitude of normalize's result equals
\* the length.
C5_NormalizedMagnitudeIsLength ==
    (/\ vop \in {"CppVec3.normalize", "CVec3.normalize"}
     /\ magnitude(vin.v) # R(0)) =>
        magnitude(vret) = vin.s

\* C5 amended: for a vector of non-zero magnitude and every length,
\* normalize returns the vector scaled by length / magnitude; the magnitude
\* of the result is the absolute value of the length (the length itself
\* only when it is not negative).
C5_NormalizedMagnitudeIsAbsLength ==
    (/\ vop \in {"CppVec3.normalize", "CVec3.normalize"}
     /\ magnitude(vin.v) # R(0)) =>
        /\ magnitude(vret) = fabs(vin.s)
        /\ CppVec3_times(vret, magnitude(vin.v)) = CppVec3_times(vin.v, vin.s)
        /\ Leq(R(0), vin.s) => magnitude(vret) = vin.s

\* C5 witness: (3,4,0).normalize(-5) has returned (-3,-4,0), of magnitude 5.
C5_Witness ==
    /\ vop = "CppVec3.normalize"
    /\ vin.v = IVec(3, 4, 0)
    /\ vin.s = R(-5)
    /\ vret = IVec(-3, -4, 0)
    /\ magnitude(vret) = R(5)

C7_Sum(curve, t) ==
    CubicSum(curve, << Poly(1, -3, 3, -1, t), Poly(0, 3, -6, 3, t),
                       Poly(0, 0, 3, -3, t), Poly(0, 0, 0, 1, t) >>)

\* the weights of C7 at t = 0.5
C7_HalfWeights ==
    << Q(1, 8), Q(3, 8), Q(3, 8), Q(1, 8) >>

\* C7 as claimed: point(t) is p0*w0 + p1*w1 + p2*w2 + p3*w3 with the
\* Bernstein weights for t in [0,1]; on (0,0,0), (0,1,0), (1,1,0), (1,0,0)
\* the weights at 0.5 are (0.125, 0.375, 0.375, 0.125) and point(0.5) is
\* (0.75, 0.75, 0).
C7_ArchPointClaimed ==
    \A c \in Callers :
        (op[c] = "cubic.point" /\ InUnit(arg[c])) =>
            /\ pc[c] = "done" => ret[c] = C7_Sum(cubic, arg[c])
            /\ (pc[c] = "sum" /\ arg[c] = Q(1, 2)) =>
                  frame[FrameOf(c)] = C7_HalfWeights
            /\ (pc[c] = "done" /\ arg[c] = Q(1, 2) /\ cubic = ArchCubic) =>
                  ret[c] = Vec(Q(3, 4), Q(3, 4), R(0))

\* C7 amended: the same, with point(0.5) = (0.5, 0.75, 0): the x
\* coordinates 0, 0, 1, 1 weighted by (0.125, 0.375, 0.375, 0.125) sum to 0.5.
C7_ArchPoint ==
    \A c \in Callers :
        (op[c] = "cubic.point" /\ InUnit(arg[c])) =>
            /\ pc[c] = "done" => ret[c] = C7_Sum(cubic, arg[c])
            /\ (pc[c] = "sum" /\ arg[c] = Q(1, 2)) =>
                  frame[FrameOf(c)] = C7_HalfWeights
            /\ (pc[c] = "done" /\ arg[c] = Q(1, 2) /\ cubic = ArchCubic) =>
                  ret[c] = Vec(Q(1, 2), Q(3, 4), R(0))

\* C7 witness: point(0.5) has returned on the curve of the scenario.
C7_Witness ==
    /\ pc[1] = "done"
    /\ op[1] = "cubic.point"
    /\ arg[1] = Q(1, 2)
    /\ cubic = ArchCubic
    /\ ret[1] = Vec(Q(1, 2), Q(3, 4), R(0))

\* (1 - f) a + f b
Blend(a, b, f) ==
    Add(Mul(Sub(R(1), f), a), Mul(f, b))

Isolated(method, t) ==
    CASE method = "cubic.point" -> CubicSum(built.cubic, bernstein_poly_d0(t))
      [] method = "cubic.tangent" -> CubicSum(built.cubic, bernstein_poly_d1(t))
      [] method = "quad.point" -> QuadSum(built.quad, quad_point_weights(t))
      [] method = "quad.tangent" -> QuadSum(built.quad, quad_tangent_weights(t))

\* C9: whatever calls of point and tangent have run or are running, in
\* whatever interleaving, the control points are those the constructors set
\* and every call has returned what an isolated call with its t returns.
C9_CallsIndependent ==
    /\ cubic = built.cubic
    /\ quad = built.quad
    /\ \A c \in Callers :
          pc[c] = "done" => ret[c] = Isolated(op[c], arg[c])

\* C9 witness: a call of cubic point(0.5) has returned after a call of quad
\* tangent(1) by another caller began in its middle and is still running.
C9_Witness ==
    /\ pc[1] = "done"
    /\ op[1] = "cubic.point"
    /\ arg[1] = Q(1, 2)
    /\ overlapped[1]
    /\ pc[2] = "sum"
    /\ op[2] = "quad.tangent"
    /\ arg[2] = R(1)
    /\ ret[1] = Isolated("cubic.point", Q(1, 2))

IsPoint(method) ==
    method \in {"cubic.point", "quad.point"}

\* the value the method returns at t on the curves translated by d
Translated(method, t, d) ==
    CASE method = "cubic.point" ->
             CubicSum(Translate4(cubic, d), bernstein_poly_d0(t))
      [] method = "cubic.tangent" ->
             CubicSum(Translate4(cubic, d), bernstein_poly_d1(t))
      [] method = "quad.point" ->
             QuadSum(Translate3(quad, d), quad_point_weights(t))
      [] method = "quad.tangent" ->
             QuadSum(Translate3(quad, d), quad_tangent_weights(t))

====
